---------------------------- MODULE Spec2Model ----------------------------
(***************************************************************************)
(* Food Anxiety Tracker: the desktop form (src/AnxietyMain.py, class       *)
(* FoodAnxietyApp) and the hosted multi-user form (src/cloudapp.py).       *)
(*                                                                         *)
(* One behaviour is one run of one of the two programs (variant).  The     *)
(* entry table is a pandas DataFrame: a set of column names and a sequence *)
(* of rows.  Floating point results (means, percentages) are kept as exact *)
(* fractions [n, d].                                                       *)
(***************************************************************************)
EXTENDS Integers, Sequences, FiniteSets, TLC

VARIABLES
    variant,    \* "desktop" (AnxietyMain.py) or "hosted" (cloudapp.py)
    form,       \* the widget-bound variables of the data entry form
    data,       \* desktop: self.data, the in-memory DataFrame
    file,       \* desktop: the lines of food_anxiety_data.csv (header aside)
    now,        \* the last clock reading (seconds; hosted: server inserts)
    user,       \* hosted: st.session_state.user ("none" when absent)
    session,    \* hosted: st.session_state.session ("none" when absent)
    db,         \* hosted: the rows of table food_anxiety_entries
    view,       \* the figure drawn by the latest step, NoView if it drew none
    ui,         \* the message shown by the latest step, Idle if it showed none
    edits       \* widget interactions so far in this run

vars == <<variant, form, data, file, now, user, session, db, view, ui, edits>>

---------------------------------------------------------------------------
(* Bounds of the model *)

MaxRows == 2            \* entries submitted in one run
MaxEdits == 2           \* widget interactions in one run
MaxExistingRows == 2    \* rows of a data file found at start-up (SpecAgg)

MaxClock == MaxRows - 1 \* desktop clock readings 0..MaxClock

\* Positions the modelled user drags the ttk.Scale to, in tenths: the scale
\* writes a float (2.5) into the IntVar.
ScaleTenths == {0, 25, 100}
\* Values the modelled user picks on st.slider (integers).
SliderValues == {0, 2, 10}
\* Text typed into a text box by the modelled user.
TextInputs == {"", " soup "}
\* The symptom comboboxes and text boxes the modelled user touches.
EditedSymptoms == {"breathing_difficulty"}
EditedTexts == {"food_eaten"}
\* Accounts of the authentication backend.
Users == {"u1", "u2"}

---------------------------------------------------------------------------
(* Record schema *)

Symptoms == <<"breathing_difficulty", "swallowing_difficulty", "scratchy_throat",
              "stomach_pain", "chest_pain", "reflux">>

SymptomSet == {Symptoms[i] : i \in 1..Len(Symptoms)}

severity_options == <<"None", "Mild", "Moderate", "Severe">>

SeverityEnum == {severity_options[i] : i \in 1..Len(severity_options)}

viz_options == <<"Anxiety Over Time", "Symptom Severity", "Food Source Analysis",
                 "Medication Effectiveness">>

VizSet == {viz_options[i] : i \in 1..Len(viz_options)}

Columns == {"timestamp", "food_source", "eating_location", "anxiety_level",
            "breathing_difficulty", "swallowing_difficulty", "scratchy_throat",
            "stomach_pain", "chest_pain", "reflux", "food_eaten", "concerns",
            "additional_comments", "took_meds", "med_types", "meds_helped"}

HostedColumns == (Columns \cup {"id", "user_id", "created_at"})

MedNames == <<"Allergy", "Anxiety", "Other">>

\* pandas' missing value (float nan) in a column of strings.
NaN == "nan(float)"

\* symptom.replace('_', ' ').title()
Title == [s \in SymptomSet |->
            CASE s = "breathing_difficulty" -> "Breathing Difficulty"
              [] s = "swallowing_difficulty" -> "Swallowing Difficulty"
              [] s = "scratchy_throat" -> "Scratchy Throat"
              [] s = "stomach_pain" -> "Stomach Pain"
              [] s = "chest_pain" -> "Chest Pain"
              [] s = "reflux" -> "Reflux"]

---------------------------------------------------------------------------
(* Conversions *)

\* datetime.now().strftime("%Y-%m-%d %H:%M:%S") of clock reading t
strftime(t) == [str |-> "2024-01-01 00:00:0" \o ToString(t)]

\* the created_at text the hosted table returns for server time t
isoformat(t) == [str |-> "2024-01-01T00:00:0" \o ToString(t) \o "+00:00"]

\* pd.to_datetime of one cell: parses text, keeps a Timestamp
to_datetime(cell) ==
    IF "datetime" \in DOMAIN cell THEN cell
    ELSE [datetime |-> CHOOSE t \in 0..MaxRows :
                          cell = strftime(t) \/ cell = isoformat(t)]

\* str.strip() on the sampled texts
strip(s) == IF s = " soup " THEN "soup" ELSE s

\* IntVar.get(): getint fails on the float text, so int(getdouble(value))
IntVarGet(tenths) == tenths \div 10

RECURSIVE Join(_)
\* ', '.join(list)
Join(list) ==
    IF list = <<>> THEN ""
    ELSE IF Len(list) = 1 THEN list[1]
    ELSE list[1] \o ", " \o Join(Tail(list))

---------------------------------------------------------------------------
(* Severity encoding *)

\* the encoding counted from 1
severity_to_numeric_onebased(severity) ==
    LET mapping == [s \in SeverityEnum |->
                      CASE s = "None" -> 1 [] s = "Mild" -> 2
                        [] s = "Moderate" -> 3 [] s = "Severe" -> 4]
    IN IF severity \in DOMAIN mapping THEN mapping[severity] ELSE 0

\* mapping.get(severity, 0)
severity_to_numeric(severity) ==
    LET mapping == [s \in SeverityEnum |->
                      CASE s = "None" -> 0 [] s = "Mild" -> 1
                        [] s = "Moderate" -> 2 [] s = "Severe" -> 3]
    IN IF severity \in DOMAIN mapping THEN mapping[severity] ELSE 0

---------------------------------------------------------------------------
(* DataFrame helpers *)

RECURSIVE SumSeq(_)
SumSeq(s) == IF s = <<>> THEN 0 ELSE s[1] + SumSeq(Tail(s))

\* Series.mean(): sum / count, kept as the fraction
Mean(s) == [n |-> SumSeq(s), d |-> Len(s)]

\* DataFrame.empty: an axis of length 0
Empty(df) == df.rows = <<>> \/ df.columns = {}

\* the column `c` of the frame, as a sequence
Col(df, c) == [i \in 1..Len(df.rows) |-> df.rows[i][c]]

BoolSum(s) == SumSeq([i \in 1..Len(s) |-> IF s[i] THEN 1 ELSE 0])


---------------------------------------------------------------------------
(* Aggregator: the four chart recipes.  generate_plot (AnxietyMain.py) and   *)
(* visualizations_page (cloudapp.py) hold the same four branches.            *)

\* "Anxiety Over Time" drawn from one entry on
AnxietyOverTime_min1(df) ==
    IF Len(df.rows) > 0
    THEN IF {"timestamp", "anxiety_level"} \subseteq df.columns
         THEN [kind |-> "series",
               out |-> [i \in 1..Len(df.rows) |->
                          <<df.rows[i].timestamp, df.rows[i].anxiety_level>>]]
         ELSE [kind |-> "KeyError", out |-> <<>>]
    ELSE [kind |-> "Need at least 2 data points for time series", out |-> <<>>]

\* "Anxiety Over Time": ax.plot(data['timestamp'], data['anxiety_level'])
AnxietyOverTime(df) ==
    IF Len(df.rows) > 1
    THEN IF {"timestamp", "anxiety_level"} \subseteq df.columns
         THEN [kind |-> "series",
               out |-> [i \in 1..Len(df.rows) |->
                          <<df.rows[i].timestamp, df.rows[i].anxiety_level>>]]
         ELSE [kind |-> "KeyError", out |-> <<>>]
    ELSE [kind |-> "Need at least 2 data points for time series", out |-> <<>>]

\* "Symptom Severity" with a bar of 0 for a column the frame lacks
SymptomSeverity_zerofill(df) ==
    LET numeric_values(s) ==
            IF s \in df.columns
            THEN [i \in 1..Len(df.rows) |-> severity_to_numeric(df.rows[i][s])]
            ELSE [i \in 1..Len(df.rows) |-> 0]
        severity_data == [k \in {Title[s] : s \in SymptomSet} |->
                            Mean(numeric_values(CHOOSE s \in SymptomSet : Title[s] = k))]
    IN [kind |-> "bars", out |-> severity_data]

\* "Symptom Severity": severity_data[title] = numeric_values.mean()
SymptomSeverity(df) ==
    LET present == {s \in SymptomSet : s \in df.columns}
        numeric_values(s) ==
            [i \in 1..Len(df.rows) |-> severity_to_numeric(df.rows[i][s])]
        severity_data == [k \in {Title[s] : s \in present} |->
                            Mean(numeric_values(CHOOSE s \in present : Title[s] = k))]
    IN IF present # {}
       THEN [kind |-> "bars", out |-> severity_data]
       ELSE [kind |-> "blank", out |-> <<>>]

\* "Food Source Analysis" with the mean of the whole column in every group
FoodSourceAnalysis_overall(df) ==
    IF {"food_source", "anxiety_level"} \subseteq df.columns
    THEN LET keys == {df.rows[i].food_source : i \in 1..Len(df.rows)} \ {NaN}
         IN [kind |-> "bars",
             out |-> [k \in keys |-> Mean(Col(df, "anxiety_level"))]]
    ELSE [kind |-> "blank", out |-> <<>>]

\* "Food Source Analysis": data.groupby('food_source')['anxiety_level'].mean()
FoodSourceAnalysis(df) ==
    IF {"food_source", "anxiety_level"} \subseteq df.columns
    THEN LET keys == {df.rows[i].food_source : i \in 1..Len(df.rows)} \ {NaN}
             group(k) == SelectSeq(df.rows, LAMBDA r : r.food_source = k)
         IN [kind |-> "bars",
             out |-> [k \in keys |->
                        Mean([i \in 1..Len(group(k)) |-> group(k)[i].anxiety_level])]]
    ELSE [kind |-> "blank", out |-> <<>>]

\* "Medication Effectiveness": the complement taken over every row
MedicationEffectiveness_alldenominator(df) ==
    IF {"took_meds", "meds_helped"} \subseteq df.columns
    THEN LET med_data == SelectSeq(df.rows, LAMBDA r : r.took_meds = TRUE)
             helped_count == BoolSum([i \in 1..Len(med_data) |-> med_data[i].meds_helped])
             total_count == Len(med_data)
         IN IF med_data # <<>>
            THEN [kind |-> "bars",
                  out |-> [Helped |-> [n |-> helped_count * 100, d |-> total_count],
                           DidNotHelp |-> [n |-> (total_count - helped_count) * 100,
                                           d |-> Len(df.rows)]]]
            ELSE [kind |-> "No medication data available", out |-> <<>>]
    ELSE [kind |-> "blank", out |-> <<>>]

\* "Medication Effectiveness": helped_count summed over every row
MedicationEffectiveness_unfiltered(df) ==
    IF {"took_meds", "meds_helped"} \subseteq df.columns
    THEN LET med_data == SelectSeq(df.rows, LAMBDA r : r.took_meds = TRUE)
             helped_count == BoolSum(Col(df, "meds_helped"))
             total_count == Len(med_data)
             effectiveness == [n |-> helped_count * 100, d |-> total_count]
         IN IF med_data # <<>>
            THEN [kind |-> "bars",
                  out |-> [Helped |-> effectiveness,
                           DidNotHelp |-> [n |-> 100 * effectiveness.d - effectiveness.n,
                                           d |-> effectiveness.d]]]
            ELSE [kind |-> "No medication data available", out |-> <<>>]
    ELSE [kind |-> "blank", out |-> <<>>]

\* "Medication Effectiveness": [effectiveness, 100 - effectiveness]
MedicationEffectiveness(df) ==
    IF {"took_meds", "meds_helped"} \subseteq df.columns
    THEN LET med_data == SelectSeq(df.rows, LAMBDA r : r.took_meds = TRUE)
             helped_count == BoolSum([i \in 1..Len(med_data) |-> med_data[i].meds_helped])
             total_count == Len(med_data)
             \* helped_count / total_count * 100
             effectiveness == [n |-> helped_count * 100, d |-> total_count]
         IN IF med_data # <<>>
            THEN [kind |-> "bars",
                  out |-> [Helped |-> effectiveness,
                           \* 100 - effectiveness
                           DidNotHelp |-> [n |-> 100 * effectiveness.d - effectiveness.n,
                                           d |-> effectiveness.d]]]
            ELSE [kind |-> "No medication data available", out |-> <<>>]
    ELSE [kind |-> "blank", out |-> <<>>]

\* the if/elif chain on viz_type
Figure(df, viz_type) ==
    CASE viz_type = "Anxiety Over Time" -> AnxietyOverTime(df)
      [] viz_type = "Symptom Severity" -> SymptomSeverity(df)
      [] viz_type = "Food Source Analysis" -> FoodSourceAnalysis(df)
      [] viz_type = "Medication Effectiveness" -> MedicationEffectiveness(df)

\* data['timestamp'] = pd.to_datetime(data['timestamp'])
ConvertTimestamps(df) ==
    IF "timestamp" \in df.columns
    THEN [df EXCEPT !.rows = [i \in 1..Len(df.rows) |->
            [df.rows[i] EXCEPT !.timestamp = to_datetime(df.rows[i].timestamp)]]]
    ELSE df

NoView == [viz |-> "", kind |-> "none", out |-> <<>>, input |-> <<>>]

\* what a plot request leaves on screen
Drawn(df, viz_type) ==
    [viz |-> viz_type, kind |-> Figure(df, viz_type).kind,
     out |-> Figure(df, viz_type).out, input |-> df.rows]

\* nothing on screen from the latest step
Idle == [op |-> "", arg |-> "", msg |-> "", rows |-> 0]

\* the handler that ran, its argument, its message
Shown(op, arg, msg) == [op |-> op, arg |-> arg, msg |-> msg, rows |-> 0]

\* a plot request: the chart asked for, the message, len(data) it worked on
Asked(op, viz_type, msg, df) ==
    [op |-> op, arg |-> viz_type, msg |-> msg, rows |-> Len(df.rows)]


---------------------------------------------------------------------------
(* The data entry form *)

\* the initial widget values; clear_form() restores the same values
DefaultForm ==
    [food_source |-> "Home", eating_location |-> "Home", anxiety_level |-> 0,
     breathing_difficulty |-> "None", swallowing_difficulty |-> "None",
     scratchy_throat |-> "None", stomach_pain |-> "None", chest_pain |-> "None",
     reflux |-> "None", food_eaten |-> "", concerns |-> "",
     additional_comments |-> "", took_meds |-> FALSE, meds_helped |-> FALSE,
     allergy_med |-> FALSE, anxiety_med |-> FALSE, other_med |-> FALSE]

\* the form is on screen: always on the desktop, after sign-in when hosted
FormShown == variant = "desktop" \/ (variant = "hosted" /\ user # "none")

Edit(field, value) ==
    /\ FormShown
    /\ edits < MaxEdits
    /\ form[field] # value
    /\ form' = [form EXCEPT ![field] = value]
    /\ edits' = edits + 1
    /\ view' = NoView
    /\ ui' = Idle
    /\ UNCHANGED <<variant, data, file, now, user, session, db>>

\* the Home / Out radio buttons
SetFoodSource == \E v \in {"Home", "Out"} : Edit("food_source", v)

SetEatingLocation == \E v \in {"Home", "Out"} : Edit("eating_location", v)

\* ttk.Scale(from_=0, to=10) on the desktop, st.slider(0, 10) when hosted
SetAnxietyLevel ==
    \E v \in (IF variant = "desktop" THEN ScaleTenths ELSE SliderValues) :
        Edit("anxiety_level", v)

\* the read-only comboboxes / selectboxes over severity_options
SetSymptom == \E s \in EditedSymptoms, v \in SeverityEnum : Edit(s, v)

SetText == \E f \in EditedTexts, v \in TextInputs : Edit(f, v)

SetTookMeds == \E v \in BOOLEAN : Edit("took_meds", v)

\* the web form draws the widgets below only under `if took_meds_bool:`
MedWidgetsShown == variant = "desktop" \/ form.took_meds

SetMedsHelped == \E v \in BOOLEAN : MedWidgetsShown /\ Edit("meds_helped", v)

\* the Allergy / Anxiety / Other checkboxes
ToggleMed ==
    \E f \in {"allergy_med", "anxiety_med", "other_med"} :
        MedWidgetsShown /\ Edit(f, ~form[f])

\* the medication names whose checkbox is ticked, in the order of the ifs
Ticked(f) ==
    SelectSeq(MedNames, LAMBDA m : \/ (m = "Allergy" /\ f.allergy_med)
                                   \/ (m = "Anxiety" /\ f.anxiety_med)
                                   \/ (m = "Other" /\ f.other_med))

---------------------------------------------------------------------------
(* Desktop: FoodAnxietyApp *)

\* the slider value stored as the scale wrote it (no IntVar truncation)
new_entry_raw(f, t) ==
    [timestamp |-> strftime(t),
     food_source |-> f.food_source,
     eating_location |-> f.eating_location,
     anxiety_level |-> f.anxiety_level,
     breathing_difficulty |-> f.breathing_difficulty,
     swallowing_difficulty |-> f.swallowing_difficulty,
     scratchy_throat |-> f.scratchy_throat,
     stomach_pain |-> f.stomach_pain,
     chest_pain |-> f.chest_pain,
     reflux |-> f.reflux,
     food_eaten |-> strip(f.food_eaten),
     concerns |-> strip(f.concerns),
     additional_comments |-> strip(f.additional_comments),
     took_meds |-> f.took_meds,
     med_types |-> Join(Ticked(f)),
     meds_helped |-> f.meds_helped]

\* submit_entry: the new_entry dict
new_entry(f, t) ==
    [timestamp |-> strftime(t),
     food_source |-> f.food_source,
     eating_location |-> f.eating_location,
     anxiety_level |-> IntVarGet(f.anxiety_level),
     breathing_difficulty |-> f.breathing_difficulty,
     swallowing_difficulty |-> f.swallowing_difficulty,
     scratchy_throat |-> f.scratchy_throat,
     stomach_pain |-> f.stomach_pain,
     chest_pain |-> f.chest_pain,
     reflux |-> f.reflux,
     food_eaten |-> strip(f.food_eaten),
     concerns |-> strip(f.concerns),
     additional_comments |-> strip(f.additional_comments),
     took_meds |-> f.took_meds,
     med_types |-> Join(Ticked(f)),
     meds_helped |-> f.meds_helped]

\* load_data() with no data file: an empty frame with the sixteen columns
load_data == [columns |-> Columns, rows |-> <<>>]

\* pd.concat([self.data, pd.DataFrame([new_entry])], ignore_index=True)
concat(df, entry) ==
    [columns |-> df.columns \cup DOMAIN entry, rows |-> Append(df.rows, entry)]

\* one cell of column c as to_csv writes it
CsvCell(c, v) ==
    CASE c \in {"took_meds", "meds_helped"} -> (IF v THEN "True" ELSE "False")
      [] c = "anxiety_level" -> ToString(v)
      [] c \in {"timestamp", "created_at"} ->
            (IF "str" \in DOMAIN v THEN v.str ELSE strftime(v.datetime).str)
      [] OTHER -> v

\* self.data.to_csv(self.data_file, index=False): the rows after the header
to_csv(df) ==
    [i \in 1..Len(df.rows) |-> [c \in df.columns |-> CsvCell(c, df.rows[i][c])]]

\* submit_entry(): the write of the data file either completes or raises
\* before it changes the file
submit_entry ==
    /\ variant = "desktop"
    /\ Len(data.rows) < MaxRows
    /\ \E dt \in 0..1, written \in BOOLEAN :
         LET appended == concat(data, new_entry(form, now + dt))
         IN /\ now + dt <= MaxClock
            /\ now' = now + dt
            /\ data' = appended
            /\ IF written
               THEN /\ file' = to_csv(appended)
                    /\ ui' = Shown("submit_entry", "", "Entry submitted successfully!")
                    /\ form' = DefaultForm
               ELSE /\ ui' = Shown("submit_entry", "", "exception")
                    /\ UNCHANGED <<file, form>>
    /\ view' = NoView
    /\ UNCHANGED <<variant, user, session, db, edits>>

\* generate_plot() with the guard on an empty frame left out
generate_plot_result_noguard(df, viz_type, shown) ==
    [data |-> ConvertTimestamps(df),
     view |-> Drawn(ConvertTimestamps(df), viz_type),
     msg |-> ""]

\* generate_plot(): what it leaves in self.data, on screen and in a message
\* box; `shown` is the figure on screen before the call
generate_plot_result(df, viz_type, shown) ==
    IF Empty(df)
    THEN [data |-> df, view |-> shown,
          msg |-> "No data available for visualization. Please enter some data first."]
    ELSE [data |-> ConvertTimestamps(df),
          view |-> Drawn(ConvertTimestamps(df), viz_type),
          msg |-> ""]

generate_plot ==
    /\ variant = "desktop"
    /\ \E viz_type \in VizSet :
         LET r == generate_plot_result(data, viz_type, view)
         IN /\ data' = r.data
            /\ view' = r.view
            /\ ui' = Asked("generate_plot", viz_type, r.msg, data)
    /\ UNCHANGED <<variant, form, file, now, user, session, db, edits>>


---------------------------------------------------------------------------
(* Hosted: cloudapp.py.  One action is one run of main() *)

\* the rows in descending order of created_at
RECURSIVE SortDesc(_)
SortDesc(rows) ==
    IF rows = <<>> THEN <<>>
    ELSE LET i == CHOOSE i \in 1..Len(rows) :
                     \A j \in 1..Len(rows) : rows[j].created_at_s <= rows[i].created_at_s
             rest == [k \in 1..(Len(rows) - 1) |-> IF k < i THEN rows[k] ELSE rows[k + 1]]
         IN <<rows[i]>> \o SortDesc(rest)

\* a stored row as select('*') returns it, with df['timestamp'] = df['created_at']
Loaded(row) ==
    [c \in HostedColumns \cup {"timestamp"} |->
        CASE c = "timestamp" -> isoformat(row.created_at_s)
          [] c = "created_at" -> isoformat(row.created_at_s)
          [] OTHER -> row[c]]

\* load_user_data() without the filter on user_id
load_user_data_unscoped(table, user_id, answered) ==
    IF ~answered
    THEN [columns |-> {}, rows |-> <<>>]
    ELSE LET mine == SortDesc(table)
         IN [columns |-> HostedColumns \cup {"timestamp"},
             rows |-> [i \in 1..Len(mine) |-> Loaded(mine[i])]]

\* load_user_data(): select('*').eq('user_id', user_id).order('created_at',
\* desc=True); an exception gives pd.DataFrame()
load_user_data(table, user_id, answered) ==
    IF ~answered
    THEN [columns |-> {}, rows |-> <<>>]
    ELSE LET mine == SortDesc(SelectSeq(table, LAMBDA r : r.user_id = user_id))
         IN [columns |-> HostedColumns \cup {"timestamp"},
             rows |-> [i \in 1..Len(mine) |-> Loaded(mine[i])]]

\* data_entry_page: the entry_data dict of the web form
entry_data(f) ==
    [food_source |-> f.food_source,
     eating_location |-> f.eating_location,
     anxiety_level |-> f.anxiety_level,
     breathing_difficulty |-> f.breathing_difficulty,
     swallowing_difficulty |-> f.swallowing_difficulty,
     scratchy_throat |-> f.scratchy_throat,
     stomach_pain |-> f.stomach_pain,
     chest_pain |-> f.chest_pain,
     reflux |-> f.reflux,
     food_eaten |-> f.food_eaten,
     concerns |-> f.concerns,
     additional_comments |-> f.additional_comments,
     took_meds |-> f.took_meds,
     med_types |-> IF f.took_meds THEN Join(Ticked(f)) ELSE "",
     meds_helped |-> IF f.took_meds THEN f.meds_helped ELSE FALSE]

\* the row the table stores for an insert at server time t: the entry with
\* its owner, the server-assigned id and created_at
Inserted(entry, user_id, t) ==
    [c \in (HostedColumns \ {"timestamp", "created_at"}) \cup {"created_at_s"} |->
        CASE c = "user_id" -> user_id
          [] c = "id" -> ToString(t)
          [] c = "created_at_s" -> t
          [] OTHER -> entry[c]]

\* the session object the backend returns with user u
SessionOf(u) == "session of " \o u

\* check_authentication(): the Sign In form.  resp is the backend's answer:
\* a user, "none" (no user in the response) or "raise"
sign_in ==
    /\ variant = "hosted"
    /\ user = "none"
    /\ \E email \in BOOLEAN, password \in BOOLEAN, resp \in Users \cup {"none", "raise"} :
         IF email /\ password
         THEN IF resp \in Users
              THEN /\ user' = resp
                   /\ session' = SessionOf(resp)
                   /\ ui' = Shown("sign_in", "email and password", "Successfully signed in!")
              ELSE /\ UNCHANGED <<user, session>>
                   /\ ui' = Shown("sign_in", "email and password",
                                  IF resp = "raise" THEN "Sign in error"
                                  ELSE "Sign in failed. Please check your credentials.")
         ELSE /\ UNCHANGED <<user, session>>
              /\ ui' = Shown("sign_in", "", "Please enter both email and password.")
    /\ view' = NoView
    /\ UNCHANGED <<variant, form, data, file, now, db, edits>>

\* the message of the Create Account form
sign_up_message(filled, same, long, resp) ==
    IF ~filled THEN "Please fill in all fields."
    ELSE IF ~same THEN "Passwords do not match."
    ELSE IF ~long THEN "Password must be at least 6 characters long."
    ELSE IF resp = "raise" THEN "Signup error"
    ELSE IF resp = "none" THEN "Account creation failed."
    ELSE "Account created!"

\* Create Account that signs the new user in
sign_up_signs_in ==
    /\ variant = "hosted"
    /\ user = "none"
    /\ \E filled \in BOOLEAN, same \in BOOLEAN, long \in BOOLEAN,
          resp \in Users \cup {"none", "raise"} :
         /\ ui' = Shown("sign_up", "", sign_up_message(filled, same, long, resp))
         /\ IF filled /\ same /\ long /\ resp \in Users
            THEN user' = resp /\ session' = SessionOf(resp)
            ELSE UNCHANGED <<user, session>>
    /\ view' = NoView
    /\ UNCHANGED <<variant, form, data, file, now, db, edits>>

\* check_authentication(): the Create Account form
sign_up ==
    /\ variant = "hosted"
    /\ user = "none"
    /\ \E filled \in BOOLEAN, same \in BOOLEAN, long \in BOOLEAN,
          resp \in Users \cup {"none", "raise"} :
         ui' = Shown("sign_up", "", sign_up_message(filled, same, long, resp))
    /\ view' = NoView
    /\ UNCHANGED <<variant, form, data, file, now, user, session, db, edits>>

\* the Logout button with the session cleared before sign_out is called
logout_clear_first ==
    /\ variant = "hosted"
    /\ user # "none"
    /\ \E signed_out \in BOOLEAN :
         /\ user' = "none"
         /\ session' = "none"
         /\ form' = DefaultForm
         /\ view' = NoView
         /\ ui' = IF signed_out THEN Idle ELSE Shown("logout", "", "Logout error")
    /\ UNCHANGED <<variant, data, file, now, db, edits>>

\* main(): the Logout button; st.session_state.clear() drops the widget
\* values with the user and the session
logout ==
    /\ variant = "hosted"
    /\ user # "none"
    /\ \E signed_out \in BOOLEAN :
         IF signed_out
         THEN /\ user' = "none"
              /\ session' = "none"
              /\ form' = DefaultForm
              /\ view' = NoView
              /\ ui' = Idle
         ELSE /\ ui' = Shown("logout", "", "Logout error")
              /\ view' = NoView
              /\ UNCHANGED <<user, session, form>>
    /\ UNCHANGED <<variant, data, file, now, db, edits>>

\* main() on page "Data Entry" with Submit Entry pressed: save_entry()
\* returns True when the insert answered with the row
data_entry_page ==
    /\ variant = "hosted"
    /\ user # "none"
    /\ now < MaxRows
    /\ \E saved \in BOOLEAN :
         IF saved
         THEN /\ db' = Append(db, Inserted(entry_data(form), user, now + 1))
              /\ now' = now + 1
              /\ ui' = Shown("data_entry_page", "", "Entry submitted successfully!")
         ELSE /\ ui' = Shown("data_entry_page", "", "Failed to save entry. Please try again.")
              /\ UNCHANGED <<db, now>>
    /\ view' = NoView
    /\ UNCHANGED <<variant, form, data, file, user, session, edits>>

\* visualizations_page(data): the figure and the warning on the page
visualizations_page_result(df, viz_type) ==
    IF Empty(df)
    THEN [view |-> NoView, msg |-> "No data available. Please enter some data first."]
    ELSE [view |-> Drawn(ConvertTimestamps(df), viz_type), msg |-> ""]

\* main() on page "Visualizations": load_user_data(), then the page
visualizations_page ==
    /\ variant = "hosted"
    /\ user # "none"
    /\ \E viz_type \in VizSet, answered \in BOOLEAN :
         LET loaded == load_user_data(db, user, answered)
             r == visualizations_page_result(loaded, viz_type)
         IN /\ view' = r.view
            /\ ui' = Asked("visualizations_page", viz_type, r.msg, loaded)
    /\ UNCHANGED <<variant, form, data, file, now, user, session, db, edits>>

\* delete_entry(): delete().eq('id', entry_id) on the table
delete_entry(table, entry_id) == SelectSeq(table, LAMBDA r : r.id # entry_id)

\* data_management_page: data.drop(columns=['id', 'user_id']).to_csv(index=False)
export_csv(df) == to_csv([columns |-> df.columns \ {"id", "user_id"}, rows |-> df.rows])

\* data_management_page: the entries listed and the export offered
Listing(df) ==
    [viz |-> "Data Management", kind |-> "listing", out |-> export_csv(df),
     input |-> df.rows]

\* main() on page "Data Management": load_user_data(), then the page; pressed
\* is the id on the Delete button pressed in this run ("" when none is)
data_management_page ==
    /\ variant = "hosted"
    /\ user # "none"
    /\ \E answered \in BOOLEAN :
         LET loaded == load_user_data(db, user, answered)
         IN IF Empty(loaded)
            THEN /\ view' = NoView
                 /\ ui' = Asked("data_management_page", "", "No data available.", loaded)
                 /\ db' = db
            ELSE \E pressed \in {""} \cup {loaded.rows[i].id : i \in 1..Len(loaded.rows)} :
                   IF pressed = ""
                   THEN /\ view' = Listing(loaded)
                        /\ ui' = Asked("data_management_page", "", "", loaded)
                        /\ db' = db
                   ELSE \E deleted \in BOOLEAN :
                          IF deleted
                          THEN /\ db' = delete_entry(db, pressed)
                               /\ view' = NoView
                               /\ ui' = Asked("data_management_page", pressed,
                                              "Entry deleted!", loaded)
                          ELSE /\ db' = db
                               /\ view' = Listing(loaded)
                               /\ ui' = Asked("data_management_page", pressed,
                                              "Failed to delete entry", loaded)
    /\ UNCHANGED <<variant, form, data, file, now, user, session, edits>>

---------------------------------------------------------------------------
(* Specification: a fresh desktop installation or the hosted application *)

Init ==
    /\ variant \in {"desktop", "hosted"}
    /\ form = DefaultForm
    /\ data = load_data
    /\ file = <<>>
    /\ now = 0
    /\ user = "none"
    /\ session = "none"
    /\ db = <<>>
    /\ view = NoView
    /\ ui = Idle
    /\ edits = 0

Next ==
    \/ SetFoodSource
    \/ SetEatingLocation
    \/ SetAnxietyLevel
    \/ SetSymptom
    \/ SetText
    \/ SetTookMeds
    \/ SetMedsHelped
    \/ ToggleMed
    \/ submit_entry
    \/ generate_plot
    \/ sign_in
    \/ sign_up
    \/ logout
    \/ data_entry_page
    \/ visualizations_page
    \/ data_management_page

Spec == Init /\ [][Next]_vars


---------------------------------------------------------------------------
(* Specification: the desktop application started on a data file that is   *)
(* already there (load_data() reads it), then asked for plots.  The file   *)
(* may come from elsewhere: columns may be missing, severity cells may     *)
(* hold anything read_csv can return.                                      *)

\* values a severity cell can hold after pd.read_csv: the enum, a missing
\* value, other text
SeverityInputs == SeverityEnum \cup {NaN, "Extreme", "mild", ""}

\* columns a found file may lack
OptionalColumns == {"breathing_difficulty", "reflux"}

ExistingRows ==
    {[new_entry(DefaultForm, 0) EXCEPT !.breathing_difficulty = b,
                                       !.reflux = NaN,
                                       !.anxiety_level = a,
                                       !.took_meds = m] :
        b \in SeverityInputs, a \in {7}, m \in BOOLEAN}

ExistingFrames ==
    {[columns |-> Columns \ missing, rows |-> rows] :
        missing \in SUBSET OptionalColumns,
        rows \in UNION {[1..n -> ExistingRows] : n \in 0..MaxExistingRows}}

InitAgg ==
    /\ variant = "desktop"
    /\ form = DefaultForm
    /\ data \in ExistingFrames
    /\ file = to_csv(data)
    /\ now = 0
    /\ user = "none"
    /\ session = "none"
    /\ db = <<>>
    /\ view = NoView
    /\ ui = Idle
    /\ edits = 0

NextAgg == generate_plot

SpecAgg == InitAgg /\ [][NextAgg]_vars


---------------------------------------------------------------------------
(* Specification: the hosted application, with delete_entry() also called  *)
(* for any identifier of the table (the function takes the identifier as   *)
(* its only argument).                                                     *)

\* delete_entry(entry_id) called in the signed-in user's session
delete_entry_request ==
    /\ variant = "hosted"
    /\ user # "none"
    /\ \E entry_id \in {db[i].id : i \in 1..Len(db)}, answered \in BOOLEAN :
         IF answered
         THEN /\ db' = delete_entry(db, entry_id)
              /\ ui' = Shown("delete_entry", entry_id, "")
         ELSE /\ db' = db
              /\ ui' = Shown("delete_entry", entry_id, "Error deleting entry")
    /\ view' = NoView
    /\ UNCHANGED <<variant, form, data, file, now, user, session, edits>>

InitDelete == Init /\ variant = "hosted"

NextDelete ==
    \/ SetAnxietyLevel
    \/ sign_in
    \/ logout
    \/ data_entry_page
    \/ data_management_page
    \/ delete_entry_request

SpecDelete == InitDelete /\ [][NextDelete]_vars

---------------------------------------------------------------------------
(* Specification: the desktop application restarted on the data file that  *)
(* save_data() wrote for a table of entries made by the form.              *)

\* the texts pd.read_csv takes for a missing value, among those a cell of the
\* file can hold: '' always, 'None' from pandas 2.0 on
na_values(none_is_na) == {""} \cup (IF none_is_na THEN {"None"} ELSE {})

\* one cell of column c as pd.read_csv parses it
ParseCell(c, text, none_is_na) ==
    IF text \in na_values(none_is_na) THEN NaN
    ELSE CASE c \in {"took_meds", "meds_helped"} -> (text = "True")
           [] c = "anxiety_level" -> (CHOOSE n \in 0..10 : ToString(n) = text)
           [] c = "timestamp" -> [str |-> text]
           [] OTHER -> text

\* pd.read_csv(self.data_file)
read_csv(lines, none_is_na) ==
    [columns |-> IF lines = <<>> THEN Columns ELSE DOMAIN lines[1],
     rows |-> [i \in 1..Len(lines) |->
                 [c \in DOMAIN lines[i] |-> ParseCell(c, lines[i][c], none_is_na)]]]

\* __init__: self.data = self.load_data() with the data file present
load_data_from_file ==
    /\ variant = "desktop"
    /\ \E none_is_na \in BOOLEAN : data' = read_csv(file, none_is_na)
    /\ form' = DefaultForm
    /\ view' = NoView
    /\ ui' = Asked("load_data", "", "", data')
    /\ UNCHANGED <<variant, file, now, user, session, db, edits>>

\* forms the entries of a saved table were made from
SavedForms ==
    {[DefaultForm EXCEPT !.breathing_difficulty = b, !.food_eaten = t,
                         !.took_meds = m, !.meds_helped = m, !.allergy_med = a] :
        b \in {"None", "Severe"}, t \in TextInputs, m \in BOOLEAN, a \in BOOLEAN}

SavedFrames ==
    {[columns |-> Columns, rows |-> [i \in 1..n |-> new_entry(forms[i], i - 1)]] :
        n \in 0..MaxExistingRows, forms \in [1..MaxExistingRows -> SavedForms]}

InitCsv ==
    /\ variant = "desktop"
    /\ form = DefaultForm
    /\ data \in SavedFrames
    /\ file = to_csv(data)
    /\ now = 0
    /\ user = "none"
    /\ session = "none"
    /\ db = <<>>
    /\ view = NoView
    /\ ui = Idle
    /\ edits = 0

NextCsv == load_data_from_file

SpecCsv == InitCsv /\ [][NextCsv]_vars


---------------------------------------------------------------------------
(* Properties *)

\* every entry the program stores: the desktop frame and the hosted table
Stored ==
    {data.rows[i] : i \in 1..Len(data.rows)} \cup {db[i] : i \in 1..Len(db)}

\* the positions of `rows` that satisfy P
Where(rows, P(_)) == {i \in 1..Len(rows) : P(rows[i])}

RECURSIVE SumOver(_, _)
\* the sum of f over the finite set S
SumOver(S, f) ==
    IF S = {} THEN 0
    ELSE LET x == CHOOSE x \in S : TRUE IN f[x] + SumOver(S \ {x}, f)

\* a fraction lies in [lo, hi]
Within(q, lo, hi) == q.d > 0 /\ lo * q.d <= q.n /\ q.n <= hi * q.d

\* the latest step drew chart `viz_type`
Plotted(viz_type) == view.kind # "none" /\ view.viz = viz_type

\* the latest step was a request for a plot
PlotRequested == ui.op \in {"generate_plot", "visualizations_page"}

NoDataMessages ==
    {"No data available for visualization. Please enter some data first.",
     "No data available. Please enter some data first."}

\* C1: severity_to_numeric maps every input to a member of {0,1,2,3}: None
\* to 0, Mild to 1, Moderate to 2, Severe to 3 and every other value (missing,
\* unknown text) to 0; a Symptom Severity request over a frame holding such
\* values draws its bars from these numbers and does not fail.
C1_SeverityTotal ==
    /\ \A v \in SeverityInputs :
         /\ severity_to_numeric(v) \in 0..3
         /\ v = "None" => severity_to_numeric(v) = 0
         /\ v = "Mild" => severity_to_numeric(v) = 1
         /\ v = "Moderate" => severity_to_numeric(v) = 2
         /\ v = "Severe" => severity_to_numeric(v) = 3
         /\ v \notin SeverityEnum => severity_to_numeric(v) = 0
    /\ Plotted("Symptom Severity") =>
         /\ view.kind = "bars"
         /\ \A s \in SymptomSet \cap data.columns :
              view.out[Title[s]].n =
                  SumOver(1..Len(view.input),
                          [i \in 1..Len(view.input) |->
                              CASE view.input[i][s] = "Mild" -> 1
                                [] view.input[i][s] = "Moderate" -> 2
                                [] view.input[i][s] = "Severe" -> 3
                                [] OTHER -> 0])

\* C1 witness: a Symptom Severity chart was drawn over a frame whose
\* breathing_difficulty column holds a missing and an unknown value.
C1_Witness ==
    /\ Plotted("Symptom Severity")
    /\ "breathing_difficulty" \in data.columns
    /\ \E i, j \in 1..Len(view.input) :
         /\ view.input[i].breathing_difficulty = NaN
         /\ view.input[j].breathing_difficulty = "Extreme"
    /\ view.out["Breathing Difficulty"].n = 0

\* C2: when the frame holds an entry with took_meds true, the Medication
\* Effectiveness chart has the two bars Helped and Did Not Help, their sum is
\* exactly 100 and each lies in [0, 100].
C2_EffectivenessSumsTo100 ==
    (/\ Plotted("Medication Effectiveness")
     /\ Where(view.input, LAMBDA r : r.took_meds) # {}) =>
        /\ view.kind = "bars"
        /\ DOMAIN view.out = {"Helped", "DidNotHelp"}
        /\ Within(view.out.Helped, 0, 100)
        /\ Within(view.out.DidNotHelp, 0, 100)
        /\ view.out.Helped.n * view.out.DidNotHelp.d
             + view.out.DidNotHelp.n * view.out.Helped.d
           = 100 * view.out.Helped.d * view.out.DidNotHelp.d

\* C2 witness: a Medication Effectiveness chart with both bars strictly
\* between 0 and 100.
C2_Witness ==
    /\ Plotted("Medication Effectiveness")
    /\ view.kind = "bars"
    /\ 0 < view.out.Helped.n
    /\ view.out.Helped.n < 100 * view.out.Helped.d

\* C3: the Medication Effectiveness chart over a non-empty frame depends only
\* on the entries with took_meds true: with none it shows 'No medication data
\* available'; otherwise Helped = (entries with took_meds and meds_helped) /
\* (entries with took_meds) x 100, whatever meds_helped is elsewhere.
C3_EffectivenessOverMedEntries ==
    (Plotted("Medication Effectiveness") /\ view.input # <<>>) =>
        LET med == Where(view.input, LAMBDA r : r.took_meds)
            helped == Where(view.input, LAMBDA r : r.took_meds /\ r.meds_helped)
        IN IF med = {}
           THEN view.kind = "No medication data available"
           ELSE /\ view.kind = "bars"
                /\ view.out.Helped.d > 0
                /\ view.out.Helped.n * Cardinality(med)
                     = Cardinality(helped) * 100 * view.out.Helped.d

\* C3 witness: the chart was computed over a frame that holds an entry with
\* took_meds true and an entry with took_meds false whose meds_helped is true.
C3_Witness ==
    /\ Plotted("Medication Effectiveness")
    /\ view.kind = "bars"
    /\ Where(view.input, LAMBDA r : ~r.took_meds /\ r.meds_helped) # {}

\* C4: a request for any of the four charts over zero entries draws nothing
\* and computes nothing: it ends with the no-data warning.  A hosted user
\* with no entry in the table is served zero entries.
C4_EmptyTableNoData ==
    /\ (PlotRequested /\ ui.rows = 0) =>
          /\ ui.msg \in NoDataMessages
          /\ view = NoView
    /\ (ui.op = "generate_plot" /\ data.rows = <<>>) => ui.rows = 0
    /\ (ui.op = "visualizations_page"
        /\ Where(db, LAMBDA r : r.user_id = user) = {}) => ui.rows = 0

\* C4 witness: a hosted user without entries asked for the Symptom Severity
\* chart while the table holds another user's entry.
C4_Witness ==
    /\ ui.op = "visualizations_page"
    /\ ui.arg = "Symptom Severity"
    /\ ui.rows = 0
    /\ db # <<>>
    /\ ui.msg \in NoDataMessages

\* C5: Anxiety Over Time draws a series exactly when the frame holds at least
\* 2 entries; with 1 entry it shows 'Need at least 2 data points'.
C5_SeriesNeedsTwoEntries ==
    Plotted("Anxiety Over Time") =>
        /\ view.kind = "series" <=> Len(view.input) >= 2
        /\ Len(view.input) = 1 =>
             view.kind = "Need at least 2 data points for time series"

\* C5 witness: Anxiety Over Time was asked for over exactly one entry.
C5_Witness ==
    /\ Plotted("Anxiety Over Time")
    /\ Len(view.input) = 1
    /\ view.kind = "Need at least 2 data points for time series"

\* C6: the Anxiety Over Time series is in chronological order: its timestamps
\* never decrease along the series, on the desktop and when hosted.
C6_SeriesChronological ==
    (Plotted("Anxiety Over Time") /\ view.kind = "series") =>
        \A i, j \in 1..Len(view.out) :
            i < j => view.out[i][1].datetime <= view.out[j][1].datetime

\* C7: over a non-empty frame the Symptom Severity chart has one bar for each
\* symptom column the frame has and none for a column it lacks; each bar is
\* sum / count of the 0-3 encoding over all entries, so it lies in [0, 3].
C7_SymptomMeans ==
    (Plotted("Symptom Severity") /\ view.input # <<>>) =>
        /\ \A s \in SymptomSet : Title[s] \in DOMAIN view.out <=> s \in data.columns
        /\ \A s \in SymptomSet \cap data.columns :
             LET m == view.out[Title[s]]
                 count(v) == Cardinality(Where(view.input, LAMBDA r : r[s] = v))
             IN /\ m.d = Len(view.input)
                /\ m.n = count("Mild") + 2 * count("Moderate") + 3 * count("Severe")
                /\ Within(m, 0, 3)

\* C7 witness: the chart over severities None and Severe gives 3/2, and the
\* frame lacks the reflux column.
C7_Witness ==
    /\ Plotted("Symptom Severity")
    /\ "reflux" \notin data.columns
    /\ "breathing_difficulty" \in data.columns
    /\ view.out["Breathing Difficulty"] = [n |-> 3, d |-> 2]
    /\ \E i \in 1..Len(view.input) : view.input[i].breathing_difficulty = "None"

\* C8: over a non-empty frame the Food Source Analysis chart has one bar for
\* each food_source value that occurs and no other; the bar is sum / count of
\* anxiety_level over exactly the entries with that value, and the counts add
\* up to the number of entries.
C8_FoodSourceGroups ==
    (Plotted("Food Source Analysis") /\ view.input # <<>>) =>
        /\ view.kind = "bars"
        /\ DOMAIN view.out = {view.input[i].food_source : i \in 1..Len(view.input)}
        /\ \A k \in DOMAIN view.out :
             LET members == Where(view.input, LAMBDA r : r.food_source = k)
             IN /\ members # {}
                /\ view.out[k].d = Cardinality(members)
                /\ view.out[k].n =
                     SumOver(members, [i \in members |-> view.input[i].anxiety_level])
        /\ SumOver(DOMAIN view.out, [k \in DOMAIN view.out |-> view.out[k].d])
             = Len(view.input)

\* C8 witness: the chart has the groups Home and Out with different means.
C8_Witness ==
    /\ Plotted("Food Source Analysis")
    /\ DOMAIN view.out = {"Home", "Out"}
    /\ view.out["Home"].n * view.out["Out"].d # view.out["Out"].n * view.out["Home"].d

\* the med_types texts ', '.join can produce from the three names
MedTypeTexts ==
    {Join(SelectSeq(MedNames, LAMBDA m : m \in chosen)) :
        chosen \in SUBSET {"Allergy", "Anxiety", "Other"}}

\* the entries that reached the data file or the hosted table
Persisted ==
    {data.rows[i] : i \in 1..Len(file)} \cup {db[i] : i \in 1..Len(db)}

\* C9: every stored entry has med_types within {Allergy, Anxiety, Other} and
\* has med_types empty whenever its took_meds is false.
C9_MedTypesOnlyWithMeds ==
    \A e \in Persisted :
        /\ e.med_types \in MedTypeTexts
        /\ ~e.took_meds => e.med_types = ""

\* C10: every stored entry has anxiety_level in 0..10, food_source and
\* eating_location in {Home, Out} and each of the six symptom fields in
\* {None, Mild, Moderate, Severe}.
C10_EntryDomains ==
    \A e \in Stored :
        /\ e.anxiety_level \in 0..10
        /\ e.food_source \in {"Home", "Out"}
        /\ e.eating_location \in {"Home", "Out"}
        /\ \A s \in SymptomSet : e[s] \in SeverityEnum

\* C10 witness: the desktop stored an entry whose slider stood at 2.5 and
\* whose breathing_difficulty is Severe.
C10_Witness ==
    /\ variant = "desktop"
    /\ \E i \in 1..Len(data.rows) :
         /\ data.rows[i].anxiety_level = 2
         /\ data.rows[i].breathing_difficulty = "Severe"

\* the latest step was a submission that reported success
SubmitSucceeded ==
    /\ ui'.op \in {"submit_entry", "data_entry_page"}
    /\ ui'.msg = "Entry submitted successfully!"

\* the latest step was a submission whose write failed
SubmitFailed ==
    /\ ui'.op \in {"submit_entry", "data_entry_page"}
    /\ ui'.msg # "Entry submitted successfully!"

\* the stored entry e holds the values the widgets of form f show; line is
\* TRUE for a line of the data file (cells are text)
HoldsFormValues(e, f, line) ==
    /\ e.food_source = f.food_source
    /\ e.eating_location = f.eating_location
    /\ \A s \in SymptomSet : e[s] = f[s]
    /\ IF line
       THEN /\ e.anxiety_level = ToString(f.anxiety_level \div 10)
            /\ e.took_meds = (IF f.took_meds THEN "True" ELSE "False")
            /\ e.food_eaten = strip(f.food_eaten)
       ELSE /\ e.anxiety_level = f.anxiety_level
            /\ e.took_meds = f.took_meds
            /\ e.food_eaten = f.food_eaten

\* C11: storage (the data file, the hosted table) is append-only under
\* submission: a successful submit adds exactly one entry, which holds the form
\* values of that moment, after the entries stored before, whose count, order
\* and field values stay as they were; and no step of the program changes a
\* field of an entry that stays stored.
C11_AppendOnly ==
    [][/\ (SubmitSucceeded /\ variant = "desktop") =>
             /\ Len(file') = Len(file) + 1
             /\ \A i \in 1..Len(file) : file'[i] = file[i]
             /\ HoldsFormValues(file'[Len(file')], form, TRUE)
       /\ (SubmitSucceeded /\ variant = "hosted") =>
             /\ Len(db') = Len(db) + 1
             /\ \A i \in 1..Len(db) : db'[i] = db[i]
             /\ HoldsFormValues(db'[Len(db')], form, FALSE)
       /\ \A i \in 1..Len(file) : i <= Len(file') => file'[i] = file[i]
       /\ \A i \in 1..Len(db), j \in 1..Len(db') :
             db[i].id = db'[j].id => db[i] = db'[j]
      ]_vars

\* C12: a submission whose write fails is all-or-nothing: the entry is in
\* neither the persisted nor the in-memory table, an error message is shown
\* and the form keeps its values.
C12_FailedWriteAllOrNothing ==
    [][SubmitFailed =>
          /\ data' = data
          /\ file' = file
          /\ db' = db
          /\ form' = form
          /\ ui'.msg # ""
      ]_vars

\* C16: producing a view is read-only: a generate_plot or visualizations_page
\* step, for any chart, over a table whose entries are all persisted, leaves
\* the in-memory table, the data file and the hosted table as they were
\* (count, order and every field, timestamp too).
C16_ViewsReadOnly ==
    [][(ui'.op \in {"generate_plot", "visualizations_page"}
         /\ Len(file) = Len(data.rows)) =>
          /\ data' = data
          /\ file' = file
          /\ db' = db
      ]_vars

\* C13: when hosted, a step of a signed-in user removes at most one record
\* and never a record owned by another user: delete_entry called by user A
\* with the identifier of B's record leaves B's record in the table.
C13_DeleteOwnOnly ==
    [][/\ Len(db') >= Len(db) - 1
       /\ \A i \in 1..Len(db) :
             db[i].user_id # user => \E j \in 1..Len(db') : db'[j] = db[i]
      ]_vars

\* C15: save_data followed by load_data gives the table back: the frame read
\* from the file written for a table of N entries made by the form has the
\* same N rows, in order, with the same value in every field.
C15_CsvRoundTrip ==
    [][(ui'.op = "load_data" /\ file = to_csv(data)) => data' = data]_vars

\* the identifiers of the records of table that user u owns
OwnedIds(table, u) == {table[i].id : i \in {k \in 1..Len(table) : table[k].user_id = u}}

\* C14: when hosted, table access is scoped by the signed-in user: the row an
\* insert adds carries the session user's id; every chart, listing and export
\* is made from the user's own entries only, and a non-empty one from exactly
\* all of them; the export has one line per own entry and no id or user_id.
C14_ScopedByUser ==
    [][/\ (ui'.op = "data_entry_page" /\ db' # db) =>
             /\ Len(db') = Len(db) + 1
             /\ db'[Len(db')].user_id = user
       /\ (variant = "hosted" /\ view'.kind # "none") =>
             /\ \A k \in 1..Len(view'.input) : view'.input[k].user_id = user'
             /\ {view'.input[k].id : k \in 1..Len(view'.input)} = OwnedIds(db', user')
       /\ view'.kind = "listing" =>
             /\ Len(view'.out) = Cardinality(OwnedIds(db', user'))
             /\ \A k \in 1..Len(view'.out) :
                   /\ DOMAIN view'.out[k] \cap {"id", "user_id"} = {}
                   /\ \E i \in 1..Len(db') :
                         /\ db'[i].user_id = user'
                         /\ view'.out[k].created_at = isoformat(db'[i].created_at_s).str
                         /\ view'.out[k].anxiety_level = ToString(db'[i].anxiety_level)
      ]_vars

\* C14 witness: the table holds an entry of u1 and an entry of u2, and u2 is
\* shown a listing of one entry.
C14_Witness ==
    /\ user = "u2"
    /\ view.kind = "listing"
    /\ Len(view.input) = 1
    /\ OwnedIds(db, "u1") # {}
    /\ OwnedIds(db, "u2") # {}

\* the pages that read or write the table
TablePages == {"data_entry_page", "visualizations_page", "data_management_page"}

\* C17: when hosted, a page that reads, inserts into or deletes from the table
\* runs only with a signed-in user, and the table changes only then; the
\* session user is set only by a sign-in with e-mail and password filled in
\* whose response holds a user; a failed sign-in, a backend exception and a
\* sign-up, successful or not, leave the session user as it was.
C17_AuthGate ==
    [][/\ ui'.op \in TablePages => (user # "none" /\ user' = user)
       /\ db' # db => user # "none"
       /\ (user' # user /\ user' # "none") =>
             /\ user = "none"
             /\ ui'.op = "sign_in"
             /\ ui'.arg = "email and password"
             /\ ui'.msg = "Successfully signed in!"
             /\ session' = SessionOf(user')
       /\ (ui'.op = "sign_in" /\ ui'.msg # "Successfully signed in!") =>
             (user' = user /\ session' = session)
       /\ ui'.op = "sign_up" => (user' = user /\ session' = session)
      ]_vars

\* C17 witness: a sign-up answered with a user ('Account created!') while the
\* table holds entries, and nobody is signed in.
C17_Witness ==
    /\ ui.op = "sign_up"
    /\ ui.msg = "Account created!"
    /\ user = "none"
    /\ db # <<>>

\* C18: when sign_out succeeds the whole session state is cleared (user,
\* session, widget values); with no user in the session only the sign-in and
\* sign-up forms run, until a sign-in succeeds; when sign_out raises the
\* session state is as before (the user stays signed in) and 'Logout error'
\* is shown.
C18_Logout ==
    [][/\ (user # "none" /\ user' = "none") =>
             /\ session' = "none"
             /\ form' = DefaultForm
             /\ ui'.msg = ""
       /\ ui'.op = "logout" =>
             /\ ui'.msg = "Logout error"
             /\ user' = user
             /\ user' # "none"
             /\ session' = session
             /\ form' = form
       /\ (variant = "hosted" /\ user = "none") =>
             /\ ui'.op \in {"sign_in", "sign_up"}
             /\ db' = db
       /\ (user' = "none") <=> (session' = "none")
      ]_vars

\* C18 witness: nobody is signed in and the table holds an entry: a user
\* signed in, submitted and logged out.
C18_Witness ==
    /\ variant = "hosted"
    /\ user = "none"
    /\ session = "none"
    /\ db # <<>>
    /\ ui = Idle

=============================================================================
